---- MODULE Spec2Model ----
(***************************************************************************)
(* Model of the JQ-300 cloud account controller, class JqAccount of        *)
(* custom_components/jq300/__init__.py.                                    *)
(*                                                                         *)
(* The controller is modelled as a call stack of Python frames.  Every     *)
(* step runs one frame from its current position up to its next call,      *)
(* return or raise; a cloud request (_query) is one step whose response is *)
(* chosen by the cloud.  get_sensors makes no call and is a single step.   *)
(* The two coroutines of the setup hand their job to the call stack and    *)
(* wait for it beside it.  Under SpecRace get_sensors runs beside the call *)
(* stack, one step per statement that reads or binds the history.          *)
(***************************************************************************)
EXTENDS Integers, Sequences, FiniteSets, TLC

(***************************************************************************)
(* Bounds of the model: the last second of the clock and the number of     *)
(* logins the cloud accepts under Spec; the last second of the clock and   *)
(* the longest history under SpecAvg; the last second of the clock under   *)
(* SpecPoll; the last second of the clock under SpecRace.                  *)
(***************************************************************************)
MaxTime == 3
MaxSessions == 2
MaxAvgTime == 6
MaxHist == 3
MaxPollTime == 6
MaxRaceTime == 5

(***************************************************************************)
(* Program constants.  The durations and the sensor tables are set in      *)
(* const.py; the durations are scaled down to a few seconds and one sensor *)
(* of each table is kept: the binary sensor 1 and a continuous sensor      *)
(* measured in ppm.                                                        *)
(***************************************************************************)
DisconnectedUid == -1000
\* the token "anonymous"; the tokens the cloud issues are 1, 2, ...
AnonymousToken == 0
\* the uid the cloud answers a login with
AccountUid == 7
SENSORS_FILTER_FRAME == 3
UPDATE_MIN_INTERVAL == 1
UPDATE_TIMEOUT == 2
PassthroughSensor == 1
SENSORS == {9}
BINARY_SENSORS == {1}

DeviceIds == {"d1", "d2"}

\* seq numbers the device surface may report: two known ones and an unknown one
RawSeqs == {1, 9, 99}
\* a content of None
NoContent == -1

VARIABLES
    params,               \* self.params: [uid, safeToken]
    devices,              \* self._devices: device id -> device entry
    sensors,              \* self._sensors: device id -> history, in insertion order
    sensors_raw,          \* self._sensors_raw: device id -> latest sample set
    sensors_last_update,  \* self._sensors_last_update
    active_devices,       \* self._active_devices
    now,                  \* the clock, in seconds
    stack,                \* the Python call stack, innermost frame first
    retval,               \* the value the last finished frame returned
    call,                 \* the top-level call in progress or last made
    outcome,              \* "idle", "running", "returned" or "raised"
    nreq,                 \* requests issued since the top-level call started
    session,              \* number of successful logins so far
    devRejected,          \* a device query was rejected and no login was sent since
    authStale,            \* deviceManager answered 102 and no login was sent since
    waiter,               \* the coroutine async_update_..._or_timeout, if one was started
    snap,                 \* the cached state when update_sensors called _fetch_sensors
    reader,               \* a get_sensors call running beside the worker, step by step
    ev                    \* what the last step did

vars == <<params, devices, sensors, sensors_raw, sensors_last_update, active_devices,
          now, stack, retval, call, outcome, nreq, session, devRejected, authStale,
          waiter, snap, reader, ev>>

progVars == <<params, devices, sensors, sensors_raw, sensors_last_update, active_devices>>

EmptyMap == [x \in {} |-> 0]

NoEvent == [kind |-> "none"]

\* no coroutine was started; start is its reading of monotonic(), stored says that
\* self._sensors_last_update was assigned after that reading, result is how it ended
NoWaiter == [op |-> "none", pc |-> "idle", start |-> 0, stored |-> FALSE, result |-> "none"]

NoSnap == [valid |-> FALSE]

\* no timestamp
NoStamp == -1

\* no get_sensors call runs beside the worker.  ts_min, size, i and res are the
\* locals of its pruning loop (size: the length of the history when the loop's
\* iterator was made); stored is the timestamp under which a fetch stored a sample
\* while the call ran
NoReader ==
    [pc |-> "idle", device |-> "", ts_now |-> 0, ts_min |-> 0, size |-> 0, i |-> 0,
     res |-> <<>>, stored |-> NoStamp]

Max(S) == CHOOSE x \in S : \A y \in S : y <= x

Min(S) == CHOOSE x \in S : \A y \in S : x <= y

(***************************************************************************)
(* The cloud.  A response is named by what _query sees of it.              *)
(***************************************************************************)
QUERY_TYPE_API == "api"
QUERY_TYPE_DEVICE == "device"

ApiResponses ==
    {"conn_error", "http_error", "malformed",
     "code_102", "code_9999", "code_other", "code_2000"}

DeviceResponses == {"conn_error", "http_error", "malformed", "rc_nonzero", "rc_0"}

\* the deviceValueVos of a successful "list" answer: seq -> content, in tenths
ListBodies ==
    { (1 :> 20 @@ 9 :> 48 @@ 99 :> 30),
      (1 :> 10 @@ 9 :> NoContent @@ 99 :> NoContent) }

(***************************************************************************)
(* _query: what it hands back for a response, "None", "response", or       *)
(* "raise" when an exception leaves it.                                    *)
(***************************************************************************)
QueryResult(query_type, resp) ==
    IF resp = "conn_error" THEN "None"              \* except Exception: return None
    ELSE IF resp = "http_error" THEN "None"         \* status not 200/204
    ELSE IF resp = "malformed" THEN "raise"         \* json.loads, outside the try
    ELSE IF query_type = QUERY_TYPE_API
         THEN (IF resp = "code_2000" THEN "response" ELSE "None")
         ELSE (IF resp = "rc_0" THEN "response" ELSE "None")

QueryKeepsUid(query_type, resp) == FALSE

\* _query resets the session uid when the device surface rejects the query
QueryResetsUid(query_type, resp) ==
    query_type = QUERY_TYPE_DEVICE /\ resp = "rc_nonzero"

is_connected == params.uid > 0

(***************************************************************************)
(* Frames.                                                                 *)
(***************************************************************************)
Frame(fn, force, pc, dev, ts, idx) ==
    [fn |-> fn, force |-> force, pc |-> pc, device_id |-> dev, ts_now |-> ts, idx |-> idx]

ConnectFrame(force) == Frame("connect", force, "entry", "", 0, 0)

UpdateDevicesFrame(force) == Frame("update_devices", force, "entry", "", 0, 0)

FetchFrame(dev, ts, force) == Frame("_fetch_sensors", force, "entry", dev, ts, 0)

UpdateSensorsFrame(ts) == Frame("update_sensors", FALSE, "loop", "", ts, 1)

Running == stack # <<>>

\* a coroutine is suspended at one of its awaits
Pending == waiter.pc \in {"job", "poll"}

\* a get_sensors call is under way beside the worker
Reading == reader.pc # "idle"

Top == Head(stack)

At(fn, pc) == Running /\ Top.fn = fn /\ Top.pc = pc

NoRequests == [login |-> 0, deviceManager |-> 0, list |-> 0, signal |-> 0]

\* nreq counts the requests of the outermost call of connect, of update_devices and
\* of _fetch_sensors, so a request is counted for the function whose frame is outermost
\* (below update_sensors, which issues none itself)
Counts(fn) ==
    LET outer == IF stack[Len(stack)].fn = "update_sensors" /\ Len(stack) > 1
                 THEN stack[Len(stack) - 1].fn
                 ELSE stack[Len(stack)].fn
    IN  outer = fn

Count(fn, field) == IF Counts(fn) THEN [nreq EXCEPT ![field] = @ + 1] ELSE nreq

\* the innermost frame returns v
Return(v) ==
    /\ stack' = Tail(stack)
    /\ retval' = v
    /\ outcome' = IF Tail(stack) = <<>> THEN "returned" ELSE outcome

\* an exception leaves the innermost frame; no frame of the controller catches it
Raise ==
    /\ stack' = <<>>
    /\ outcome' = "raised"
    /\ UNCHANGED retval

\* the innermost frame moves to pc
Goto(pc) ==
    /\ stack' = <<[Top EXCEPT !.pc = pc]>> \o Tail(stack)
    /\ UNCHANGED <<retval, outcome>>

\* return f(...): the innermost frame is replaced by the frame of the call
TailCall(frame) ==
    /\ stack' = <<frame>> \o Tail(stack)
    /\ UNCHANGED <<retval, outcome>>

\* the innermost frame moves to pc and calls frame
Call(pc, frame) ==
    /\ stack' = <<frame, [Top EXCEPT !.pc = pc]>> \o Tail(stack)
    /\ UNCHANGED <<retval, outcome>>

\* the record of a request: the function, the response, the device ids the response
\* lists (or the device queried), and the device ids cached when it was sent
QueryEvent(fn, resp, ids) ==
    [kind |-> "query", fn |-> fn, resp |-> resp, ids |-> ids, cached |-> DOMAIN devices,
     result |-> QueryResult(IF fn = "list" THEN QUERY_TYPE_DEVICE ELSE QUERY_TYPE_API, resp)]

(***************************************************************************)
(* connect                                                                 *)
(***************************************************************************)
FastPathInverted(force, uid) == force /\ uid > 0

FastPathIgnoresUid(force, uid) == ~force

\* if not force and self.params["uid"] > 0: return True
FastPath(force, uid) == ~force /\ uid > 0

ConnectEntry ==
    /\ At("connect", "entry")
    /\ IF FastPath(Top.force, params.uid)
       THEN /\ Return("True")
            /\ ev' = [kind |-> "connect_fast"]
            /\ UNCHANGED <<params, authStale>>
       ELSE /\ params' = [uid |-> DisconnectedUid, safeToken |-> AnonymousToken]
            /\ authStale' = FALSE
            /\ Goto("login")
            /\ ev' = [kind |-> "connect_reset"]
    /\ UNCHANGED <<devices, sensors, sensors_raw, sensors_last_update, active_devices,
                   now, call, nreq, session, devRejected, waiter, snap, reader>>

LoginKeepsDevices(devs) == devs

\* self._devices = {} after a successful login
LoginDevices(devs) == EmptyMap

ConnectLogin ==
    /\ At("connect", "login")
    /\ \E resp \in ApiResponses :
         /\ resp = "code_2000" => session < MaxSessions
         /\ nreq' = Count("connect", "login")
         /\ devRejected' = FALSE
         /\ ev' = QueryEvent("loginByEmail", resp, {})
         /\ CASE QueryResult(QUERY_TYPE_API, resp) = "raise" ->
                   /\ Raise
                   /\ UNCHANGED <<params, devices, session>>
              [] QueryResult(QUERY_TYPE_API, resp) = "None" ->
                   /\ IF ~Top.force THEN TailCall(ConnectFrame(TRUE)) ELSE Return("False")
                   /\ UNCHANGED <<params, devices, session>>
              [] QueryResult(QUERY_TYPE_API, resp) = "response" ->
                   /\ params' = [uid |-> AccountUid, safeToken |-> session + 1]
                   /\ session' = session + 1
                   /\ devices' = LoginDevices(devices)
                   /\ Return("True")
    /\ UNCHANGED <<sensors, sensors_raw, sensors_last_update, active_devices,
                   now, call, authStale, waiter, snap, reader>>

(***************************************************************************)
(* update_devices                                                          *)
(***************************************************************************)
\* self._sensors.setdefault(device_id, {}) for every device id of ids
SetDefaultSensors(sens, ids) ==
    [d \in DOMAIN sens \cup ids |-> IF d \in DOMAIN sens THEN sens[d] ELSE <<>>]

\* the entry stored for a listed device: its token belongs to the session that
\* listed it, its stamp is the refresh time in milliseconds
DeviceEntry(token, tstamp) == [deviceToken |-> token, stamp |-> tstamp]

\* for dev in ret["deviceInfoBodyList"]: self._devices[dev["deviceid"]] = dev
StoreDevices(devs, ids, token, tstamp) ==
    [d \in DOMAIN devs \cup ids |->
        IF d \in ids THEN DeviceEntry(token, tstamp) ELSE devs[d]]

UpdateDevicesEntry ==
    /\ At("update_devices", "entry")
    /\ Call("connected", ConnectFrame(FALSE))
    /\ ev' = [kind |-> "call"]
    /\ UNCHANGED <<progVars, now, call, nreq, session, devRejected, authStale, waiter, snap, reader>>

UpdateDevicesConnected ==
    /\ At("update_devices", "connected")
    /\ IF retval = "False"
       THEN Return("None")
       ELSE IF ~Top.force /\ devices # EmptyMap
            THEN Return("Devices")
            ELSE Goto("query")
    /\ ev' = [kind |-> "step"]
    /\ UNCHANGED <<progVars, now, call, nreq, session, devRejected, authStale, waiter, snap, reader>>

UpdateDevicesQuery ==
    /\ At("update_devices", "query")
    /\ \E resp \in ApiResponses, ids \in SUBSET DeviceIds :
         /\ resp # "code_2000" => ids = {}
         /\ nreq' = Count("update_devices", "deviceManager")
         /\ authStale' = (authStale \/ (resp = "code_102" /\ is_connected))
         /\ ev' = QueryEvent("deviceManager", resp, ids)
         /\ CASE QueryResult(QUERY_TYPE_API, resp) = "raise" ->
                   /\ Raise
                   /\ UNCHANGED <<devices, sensors>>
              [] QueryResult(QUERY_TYPE_API, resp) = "None" ->
                   /\ IF ~Top.force
                      THEN TailCall(UpdateDevicesFrame(TRUE))
                      ELSE Return("None")
                   /\ UNCHANGED <<devices, sensors>>
              [] QueryResult(QUERY_TYPE_API, resp) = "response" ->
                   /\ devices' = StoreDevices(devices, ids, params.safeToken, now * 1000)
                   /\ sensors' = SetDefaultSensors(sensors, DOMAIN devices')
                   /\ Return("Devices")
    /\ UNCHANGED <<params, sensors_raw, sensors_last_update, active_devices,
                   now, call, session, devRejected, waiter, snap, reader>>

(***************************************************************************)
(* _fetch_sensors                                                          *)
(***************************************************************************)
Keys(h) == {h[i].ts : i \in 1..Len(h)}

\* self._sensors[device_id][ts_now] = res, on a dict that keeps insertion order
PutSample(h, ts, res) ==
    IF ts \in Keys(h)
    THEN [i \in 1..Len(h) |-> IF h[i].ts = ts THEN [ts |-> ts, data |-> res] ELSE h[i]]
    ELSE Append(h, [ts |-> ts, data |-> res])

\* int(float(content)) of a content given in tenths
ToInt(content) == content \div 10

\* the sample set of a "list" answer: null contents and unknown ids are skipped
SampleOf(body) ==
    [s \in {q \in DOMAIN body :
              body[q] # NoContent /\ (q \in SENSORS \/ q \in BINARY_SENSORS)}
       |-> ToInt(body[s])]

FetchEntry ==
    /\ At("_fetch_sensors", "entry")
    /\ Call("have_devices", UpdateDevicesFrame(FALSE))
    /\ ev' = [kind |-> "call"]
    /\ UNCHANGED <<progVars, now, call, nreq, session, devRejected, authStale, waiter, snap, reader>>

\* the record of the test that follows update_devices: whether the device map
\* update_devices returned has an entry for device_id, and what the test led to
HaveDevicesEvent(result) ==
    [kind |-> "have_devices", force |-> Top.force,
     listed |-> retval = "Devices" /\ Top.device_id \in DOMAIN devices,
     result |-> result]

\* if not devices or not devices[device_id]: return False
FetchHaveDevices ==
    /\ At("_fetch_sensors", "have_devices")
    /\ IF retval = "None" \/ devices = EmptyMap
       THEN Return("False") /\ ev' = HaveDevicesEvent("False")
       ELSE IF Top.device_id \notin DOMAIN devices
            THEN Raise /\ ev' = HaveDevicesEvent("KeyError")    \* devices[device_id]
            ELSE Goto("query") /\ ev' = HaveDevicesEvent("query")
    /\ UNCHANGED <<progVars, now, call, nreq, session, devRejected, authStale, waiter, snap, reader>>

FetchQuery ==
    /\ At("_fetch_sensors", "query")
    /\ \E resp \in DeviceResponses, body \in ListBodies :
         /\ nreq' = Count("_fetch_sensors", "list")
         /\ ev' = QueryEvent("list", resp, {Top.device_id})
         /\ params' = IF QueryResetsUid(QUERY_TYPE_DEVICE, resp)
                      THEN [params EXCEPT !.uid = DisconnectedUid]
                      ELSE params
         /\ devRejected' = (devRejected \/ resp = "rc_nonzero")
         /\ CASE QueryResult(QUERY_TYPE_DEVICE, resp) = "raise" ->
                   /\ Raise
                   /\ UNCHANGED <<sensors, sensors_raw, sensors_last_update, waiter, reader>>
              [] QueryResult(QUERY_TYPE_DEVICE, resp) = "None" ->
                   /\ IF ~Top.force
                      THEN TailCall(FetchFrame(Top.device_id, Top.ts_now, TRUE))
                      ELSE Return("False")
                   /\ UNCHANGED <<sensors, sensors_raw, sensors_last_update, waiter, reader>>
              [] QueryResult(QUERY_TYPE_DEVICE, resp) = "response" ->
                   /\ sensors' = [sensors EXCEPT ![Top.device_id] =
                                     PutSample(@, Top.ts_now, SampleOf(body))]
                   /\ sensors_raw' = (Top.device_id :> SampleOf(body)) @@ sensors_raw
                   /\ sensors_last_update' = now
                   /\ waiter' = IF Pending THEN [waiter EXCEPT !.stored = TRUE] ELSE waiter
                   /\ reader' = IF Reading /\ reader.device = Top.device_id
                                THEN [reader EXCEPT !.stored = Top.ts_now]
                                ELSE reader
                   /\ Return("True")
    /\ UNCHANGED <<devices, active_devices, now, call, session, authStale, snap>>

(***************************************************************************)
(* update_sensors                                                          *)
(***************************************************************************)
NeedFetchAlways(h, ts) == TRUE

\* not self._sensors[d] or max(self._sensors[d]) < ts_now - UPDATE_MIN_INTERVAL
NeedFetch(h, ts) == h = <<>> \/ Max(Keys(h)) < ts - UPDATE_MIN_INTERVAL

\* the cached state as it is now
Snapshot ==
    [valid |-> TRUE, devices |-> devices, sensors |-> sensors, sensors_raw |-> sensors_raw,
     sensors_last_update |-> sensors_last_update]

UpdateSensorsLoop ==
    /\ At("update_sensors", "loop")
    /\ IF Top.idx <= Len(active_devices)
       THEN /\ IF NeedFetch(sensors[active_devices[Top.idx]], Top.ts_now)
               THEN /\ stack' = <<FetchFrame(active_devices[Top.idx], Top.ts_now, FALSE),
                                  [Top EXCEPT !.idx = @ + 1]>> \o Tail(stack)
                    /\ nreq' = [nreq EXCEPT !.list = 0]
                    /\ snap' = Snapshot
               ELSE /\ stack' = <<[Top EXCEPT !.idx = @ + 1]>> \o Tail(stack)
                    /\ UNCHANGED <<nreq, snap>>
            /\ ev' = [kind |-> "step"]
            /\ UNCHANGED <<retval, outcome>>
       ELSE /\ nreq' = [nreq EXCEPT !.signal = @ + 1]   \* dispatcher_send
            /\ ev' = [kind |-> "signal"]
            /\ Return("None")
            /\ snap' = NoSnap
    /\ UNCHANGED <<progVars, now, call, session, devRejected, authStale, waiter, reader>>

(***************************************************************************)
(* get_sensors                                                             *)
(***************************************************************************)
\* one sample past the oldest stored one
TsMinDropsOldest(h, ts_overdue) ==
    IF Keys(h) = {} THEN ts_overdue ELSE Min(Keys(h)) + 1

\* max(list(filter(lambda x: x <= ts_overdue, keys)) or {ts_overdue})
TsMin(h, ts_overdue) ==
    LET old == {k \in Keys(h) : k <= ts_overdue}
    IN  IF old = {} THEN ts_overdue ELSE Max(old)

KeepsAfter(m_ts, ts_min) == m_ts > ts_min

\* if m_ts >= ts_min: res[m_ts] = val
Keeps(m_ts, ts_min) == m_ts >= ts_min

\* the history get_sensors leaves: the kept entries, in their order
Prune(h, ts_overdue) ==
    LET Kept(e) == Keeps(e.ts, TsMin(h, ts_overdue))
    IN  SelectSeq(h, Kept)

\* for sensor_id, val in last_data.items(): res[sensor_id] += val * val_t
\* A sensor id of last_data that res lacks is a KeyError.
AddHeld(acc, val_t) ==
    IF ~(DOMAIN acc.last_data \subseteq DOMAIN acc.res)
    THEN [acc EXCEPT !.err = TRUE]
    ELSE [acc EXCEPT !.res =
            [s \in DOMAIN acc.res |->
                IF s \in DOMAIN acc.last_data
                THEN acc.res[s] + acc.last_data[s] * val_t
                ELSE acc.res[s]]]

\* the walk over the kept history ("Sum values"), entries i..Len(h)
RECURSIVE SumValues(_, _, _, _)
SumValues(h, i, acc, ts_overdue) ==
    IF i > Len(h) \/ acc.err
    THEN acc
    ELSE LET val_t == h[i].ts - acc.last_ts
             added == IF val_t > 0 THEN AddHeld(acc, val_t) ELSE acc
         IN  SumValues(h, i + 1,
                       [added EXCEPT !.last_ts = Max({h[i].ts, ts_overdue}),
                                     !.last_data = h[i].data],
                       ts_overdue)

LastWeightNoPlusOne(ts_now, last_ts) == ts_now - last_ts

\* val_t = ts_now - last_ts + 1 ("Add last values")
LastWeight(ts_now, last_ts) == ts_now - last_ts + 1

\* length = max(1, ts_now - max(min(keys), ts_overdue) + 1)
WindowLength(h, ts_now, ts_overdue) ==
    Max({1, ts_now - Max({Min(Keys(h)), ts_overdue}) + 1})

\* the accumulators after "Add last values", for a kept history h that is not empty
Accumulate(h, raw, ts_now, ts_overdue) ==
    LET zero == [s \in DOMAIN raw |-> 0]
        walked == SumValues(h, 1,
                            [res |-> zero, last_ts |-> ts_overdue,
                             last_data |-> zero, err |-> FALSE],
                            ts_overdue)
    IN  IF walked.err THEN walked ELSE AddHeld(walked, LastWeight(ts_now, walked.last_ts))

\* "Average and round": sensor 1 is the raw value; the other sensor of the model
\* is measured in ppm, so its mean is truncated, int(res / length)
Averaged(res, raw, length) ==
    [s \in DOMAIN res |->
        IF s = PassthroughSensor THEN raw[PassthroughSensor] ELSE res[s] \div length]

HistoryOf(d) == IF d \in DOMAIN sensors THEN sensors[d] ELSE <<>>

GetSensors(d) ==
    /\ ~Running /\ ~Pending /\ ~Reading
    /\ LET ts_now == now
           ts_overdue == now - SENSORS_FILTER_FRAME
           before == HistoryOf(d)
           kept == Prune(before, ts_overdue)
           acc == Accumulate(kept, sensors_raw[d], ts_now, ts_overdue)
           length == WindowLength(kept, ts_now, ts_overdue)
           \* the record of the call before, if the last step was one for the same
           \* device in the same second
           prev == IF ev.kind = "get_sensors" /\ ev.device = d /\ ev.ts_now = now
                   THEN [ev EXCEPT !.prev = NoEvent]
                   ELSE NoEvent
       IN  /\ sensors' = (d :> kept) @@ sensors
           /\ call' = [op |-> "get_sensors", force |-> FALSE]
           /\ IF kept = <<>>
              THEN /\ outcome' = "returned"
                   /\ retval' = "None"
                   /\ ev' = [kind |-> "get_sensors", device |-> d, before |-> before,
                             ts_now |-> ts_now, result |-> "None", prev |-> prev]
              ELSE IF acc.err
                   THEN /\ outcome' = "raised"
                        /\ UNCHANGED retval
                        /\ ev' = [kind |-> "get_sensors", device |-> d, before |-> before,
                                  ts_now |-> ts_now, result |-> "KeyError", prev |-> prev]
                   ELSE /\ outcome' = "returned"
                        /\ retval' = "Mapping"
                        /\ ev' = [kind |-> "get_sensors", device |-> d, before |-> before,
                                  ts_now |-> ts_now, result |-> "Mapping", prev |-> prev,
                                  sums |-> acc.res, length |-> length,
                                  value |-> Averaged(acc.res, sensors_raw[d], length)]
    /\ nreq' = NoRequests
    /\ waiter' = NoWaiter
    /\ snap' = NoSnap
    /\ UNCHANGED <<params, devices, sensors_raw, sensors_last_update, active_devices,
                   now, stack, session, devRejected, authStale, reader>>

(***************************************************************************)
(* get_sensors called by an entity while update_sensors runs on the worker *)
(* (the timer hands update_sensors to the executor): the call is taken     *)
(* apart at the points where the worker's store can fall between its       *)
(* steps.  The worker's store, lines 467-469, stays one step.              *)
(***************************************************************************)
ReadLeaves ==
    UNCHANGED <<params, devices, sensors_raw, sensors_last_update, active_devices, now,
                stack, retval, call, outcome, nreq, session, devRejected, authStale,
                waiter, snap>>

ReadStep ==
    /\ ev' = [kind |-> "read"]
    /\ ReadLeaves

\* the call returns or raises: the record of the call is dropped
ReadEnd(result) ==
    /\ reader' = NoReader
    /\ ev' = [kind |-> "read_end", device |-> reader.device, stored |-> reader.stored,
              result |-> result]
    /\ ReadLeaves

\* ts_now = int(dt_util.now().timestamp()); self._sensors.setdefault(device_id, {})
ReadStart(d) ==
    /\ ~Reading
    /\ reader' = [NoReader EXCEPT !.pc = "ts_min", !.device = d, !.ts_now = now]
    /\ sensors' = SetDefaultSensors(sensors, {d})
    /\ ReadStep

\* ts_min = max(...), and the iterator of the pruning loop is made
ReadTsMin ==
    /\ reader.pc = "ts_min"
    /\ reader' = [reader EXCEPT
                    !.pc = "copy",
                    !.ts_min = TsMin(sensors[reader.device],
                                     reader.ts_now - SENSORS_FILTER_FRAME),
                    !.size = Len(sensors[reader.device])]
    /\ UNCHANGED sensors
    /\ ReadStep

\* one turn of "for m_ts, val in self._sensors[device_id].items()": the iterator
\* raises RuntimeError when the dict has changed size since it was made, hands out
\* the next entry, or ends the loop
ReadCopy ==
    /\ reader.pc = "copy"
    /\ LET h == sensors[reader.device]
       IN  IF Len(h) # reader.size
           THEN ReadEnd("RuntimeError")
           ELSE /\ IF reader.i < reader.size
                   THEN reader' = [reader EXCEPT
                                     !.i = @ + 1,
                                     !.res = IF Keeps(h[reader.i + 1].ts, reader.ts_min)
                                             THEN Append(@, h[reader.i + 1])
                                             ELSE @]
                   ELSE reader' = [reader EXCEPT !.pc = "assign"]
                /\ ReadStep
    /\ UNCHANGED sensors

\* self._sensors[device_id] = res
ReadAssign ==
    /\ reader.pc = "assign"
    /\ sensors' = [sensors EXCEPT ![reader.device] = reader.res]
    /\ reader' = [reader EXCEPT !.pc = "average"]
    /\ ReadStep

\* "if not self._sensors[device_id]: return None", the zeroes for the sensors of
\* the raw snapshot, and the iterator of the summing loop is made
ReadAverage ==
    /\ reader.pc = "average"
    /\ IF sensors[reader.device] = <<>>
       THEN ReadEnd("None")
       ELSE IF reader.device \notin DOMAIN sensors_raw
            THEN ReadEnd("KeyError")
            ELSE /\ reader' = [reader EXCEPT !.pc = "sum",
                                             !.size = Len(sensors[reader.device])]
                 /\ ReadStep
    /\ UNCHANGED sensors

\* the summing loop and the rest of get_sensors; the loop's iterator raises
\* RuntimeError when the dict has changed size since it was made
ReadSum ==
    /\ reader.pc = "sum"
    /\ LET h == sensors[reader.device]
           ts_overdue == reader.ts_now - SENSORS_FILTER_FRAME
       IN  IF Len(h) # reader.size
           THEN ReadEnd("RuntimeError")
           ELSE IF Accumulate(h, sensors_raw[reader.device], reader.ts_now, ts_overdue).err
                THEN ReadEnd("KeyError")
                ELSE ReadEnd("Mapping")
    /\ UNCHANGED sensors

(***************************************************************************)
(* The callers of the controller.                                          *)
(***************************************************************************)
NoCall == [op |-> "none", force |-> FALSE]

\* no call is in progress and the record of the last one is dropped
Idle ==
    /\ call' = NoCall
    /\ outcome' = "idle"
    /\ retval' = "None"
    /\ nreq' = NoRequests
    /\ waiter' = NoWaiter
    /\ snap' = NoSnap

\* the job of a call starts: its first frame is pushed
StartJob(op, force, frame) ==
    /\ ~Running /\ ~Pending
    /\ stack' = <<frame>>
    /\ call' = [op |-> op, force |-> force]
    /\ outcome' = "running"
    /\ nreq' = NoRequests
    /\ retval' = "None"
    /\ snap' = NoSnap
    /\ ev' = [kind |-> "call"]
    /\ UNCHANGED <<progVars, now, session, devRejected, authStale, reader>>

StartCall(op, force, frame) ==
    /\ StartJob(op, force, frame)
    /\ waiter' = NoWaiter

CallConnect(force) == StartCall("connect", force, ConnectFrame(force))

CallUpdateDevices(force) == StartCall("update_devices", force, UpdateDevicesFrame(force))

\* the scan-interval timer: ts_now = int(dt_util.now().timestamp())
CallUpdateSensors == StartCall("update_sensors", FALSE, UpdateSensorsFrame(now))

\* the configured allowlist of device names (CONF_DEVICES); a device's name is its id
ConfiguredDevices == {"d1"}

\* async_setup: every listed device of the allowlist becomes active
ActivateDevices ==
    /\ ~Running /\ ~Pending
    /\ active_devices = <<>>
    /\ \E d \in DOMAIN devices \cap ConfiguredDevices : active_devices' = <<d>>
    /\ ev' = [kind |-> "setup"]
    /\ Idle
    /\ UNCHANGED <<params, devices, sensors, sensors_raw, sensors_last_update,
                   now, stack, session, devRejected, authStale, reader>>

(***************************************************************************)
(* async_update_devices_or_timeout and async_update_sensors_or_timeout:    *)
(* the coroutine reads monotonic(), hands the job to a worker              *)
(* (hass.async_add_job) and awaits it, then sleeps a second at a time      *)
(* while its condition holds.  The job runs on the call stack.             *)
(***************************************************************************)
StartAsync(op, frame) ==
    /\ StartJob(op, FALSE, frame)
    /\ waiter' = [op |-> op, pc |-> "job", start |-> now, stored |-> FALSE,
                  result |-> "none"]

CallAsyncUpdateDevices ==
    StartAsync("async_update_devices_or_timeout", UpdateDevicesFrame(FALSE))

CallAsyncUpdateSensors ==
    StartAsync("async_update_sensors_or_timeout", UpdateSensorsFrame(now))

\* self._sensors_last_update < start, on a clock finer than seconds: of two readings
\* of the same second the earlier one is the smaller
LastUpdateBeforeStart ==
    \/ sensors_last_update < waiter.start
    \/ sensors_last_update = waiter.start /\ ~waiter.stored

\* the condition of the coroutine's while loop
Waiting ==
    IF waiter.op = "async_update_devices_or_timeout"
    THEN devices = EmptyMap
    ELSE LastUpdateBeforeStart

\* what the coroutine returns when its loop ends
AsyncResult ==
    IF waiter.op = "async_update_devices_or_timeout" THEN "Devices" ELSE "None"

AsyncEnd(result) == waiter' = [waiter EXCEPT !.pc = "done", !.result = result]

\* the awaited job has ended: an exception it raised is caught by
\* "except Exception", logged, and the coroutine returns None; otherwise the
\* loop's condition is tested for the first time
AsyncJobDone ==
    /\ waiter.pc = "job"
    /\ ~Running
    /\ IF outcome = "raised"
       THEN AsyncEnd("None") /\ ev' = [kind |-> "async_end", caught |-> TRUE]
       ELSE IF Waiting
            THEN /\ waiter' = [waiter EXCEPT !.pc = "poll"]
                 /\ ev' = [kind |-> "sleep"]
            ELSE AsyncEnd(AsyncResult) /\ ev' = [kind |-> "async_end", caught |-> FALSE]
    /\ UNCHANGED <<progVars, now, stack, retval, call, outcome, nreq, session,
                   devRejected, authStale, snap, reader>>

\* asyncio.sleep(1) is over: the loop's condition is tested again
AsyncPoll ==
    /\ waiter.pc = "poll"
    /\ IF Waiting
       THEN UNCHANGED waiter /\ ev' = [kind |-> "sleep"]
       ELSE AsyncEnd(AsyncResult) /\ ev' = [kind |-> "async_end", caught |-> FALSE]
    /\ UNCHANGED <<progVars, now, stack, retval, call, outcome, nreq, session,
                   devRejected, authStale, snap, reader>>

\* the deadline of async_timeout.timeout has come while the coroutine is suspended
TimedOut == Pending /\ now - waiter.start >= UPDATE_TIMEOUT

\* asyncio.TimeoutError is raised at the await and turned into CannotConnect; a job
\* still on the worker goes on
AsyncTimeout ==
    /\ TimedOut
    /\ AsyncEnd("CannotConnect")
    /\ ev' = [kind |-> "async_end", caught |-> FALSE]
    /\ UNCHANGED <<progVars, now, stack, retval, call, outcome, nreq, session,
                   devRejected, authStale, snap, reader>>

\* a second passes, during a call or between calls; the deadline of a suspended
\* coroutine is not passed over
TickTo(limit) ==
    /\ now < limit
    /\ ~TimedOut
    /\ now' = now + 1
    /\ ev' = [kind |-> "tick"]
    /\ IF Running \/ Pending
       THEN UNCHANGED <<call, outcome, retval, nreq, waiter, snap, reader>>
       ELSE Idle
    /\ UNCHANGED <<progVars, stack, session, devRejected, authStale, reader>>

Tick == TickTo(MaxTime)

(***************************************************************************)
(* The controller from its construction on.                                *)
(***************************************************************************)
Init ==
    /\ params = [uid |-> DisconnectedUid, safeToken |-> AnonymousToken]
    /\ devices = EmptyMap
    /\ sensors = EmptyMap
    /\ sensors_raw = EmptyMap
    /\ sensors_last_update = 0
    /\ active_devices = <<>>
    /\ now = 1
    /\ stack = <<>>
    /\ retval = "None"
    /\ call = NoCall
    /\ outcome = "idle"
    /\ nreq = NoRequests
    /\ session = 0
    /\ devRejected = FALSE
    /\ authStale = FALSE
    /\ waiter = NoWaiter
    /\ snap = NoSnap
    /\ reader = NoReader
    /\ ev = NoEvent

Next ==
    \/ \E force \in BOOLEAN : CallConnect(force)
    \/ \E force \in BOOLEAN : CallUpdateDevices(force)
    \/ CallUpdateSensors
    \/ ActivateDevices
    \/ \E d \in DeviceIds : GetSensors(d)
    \/ Tick
    \/ ConnectEntry
    \/ ConnectLogin
    \/ UpdateDevicesEntry
    \/ UpdateDevicesConnected
    \/ UpdateDevicesQuery
    \/ FetchEntry
    \/ FetchHaveDevices
    \/ FetchQuery
    \/ UpdateSensorsLoop

Spec == Init /\ [][Next]_vars

(***************************************************************************)
(* get_sensors on its own: the controller is connected, device d1 is       *)
(* listed and active, and its history is any one that successful fetches   *)
(* can have left: timestamps ascending in insertion order, more than       *)
(* UPDATE_MIN_INTERVAL apart (the throttle of update_sensors), the raw     *)
(* snapshot being the newest sample set.                                   *)
(***************************************************************************)
AvgBodies ==
    { (1 :> 10 @@ 9 :> 15 @@ 99 :> 30),
      (1 :> 20 @@ 9 :> 29 @@ 99 :> NoContent),
      (1 :> 10 @@ 9 :> NoContent @@ 99 :> 30),
      (1 :> NoContent @@ 9 :> 20 @@ 99 :> NoContent) }

AvgSamples == {SampleOf(b) : b \in AvgBodies}

RECURSIVE HistoriesEndingBefore(_, _)
\* the histories of at most n entries whose timestamps are below limit
HistoriesEndingBefore(limit, n) ==
    IF n = 0
    THEN {<<>>}
    ELSE {<<>>} \cup
         UNION { { Append(h, [ts |-> t, data |-> smp]) :
                     h \in HistoriesEndingBefore(t - UPDATE_MIN_INTERVAL, n - 1),
                     smp \in AvgSamples }
                 : t \in 0..(limit - 1) }

InitAvg ==
    /\ params = [uid |-> AccountUid, safeToken |-> 1]
    /\ session = 1
    /\ devices = ("d1" :> DeviceEntry(1, 0))
    /\ active_devices = <<"d1">>
    /\ \E h \in HistoriesEndingBefore(MaxAvgTime + 1, MaxHist) :
         /\ sensors = ("d1" :> h)
         /\ sensors_raw = IF h = <<>> THEN EmptyMap ELSE ("d1" :> h[Len(h)].data)
         /\ sensors_last_update = IF h = <<>> THEN 0 ELSE h[Len(h)].ts
         /\ now \in (IF h = <<>> THEN 0 ELSE h[Len(h)].ts)..MaxAvgTime
    /\ stack = <<>>
    /\ retval = "None"
    /\ call = NoCall
    /\ outcome = "idle"
    /\ nreq = NoRequests
    /\ devRejected = FALSE
    /\ authStale = FALSE
    /\ waiter = NoWaiter
    /\ snap = NoSnap
    /\ reader = NoReader
    /\ ev = NoEvent

AvgTick == TickTo(MaxAvgTime)

NextAvg ==
    \/ GetSensors("d1")
    \/ AvgTick

SpecAvg == InitAvg /\ [][NextAvg]_vars

(***************************************************************************)
(* The setup of the account (async_setup): the device list and the first   *)
(* samples are fetched through the two coroutines.                         *)
(***************************************************************************)
NextSetup ==
    \/ CallAsyncUpdateDevices
    \/ ActivateDevices
    \/ CallAsyncUpdateSensors
    \/ AsyncJobDone
    \/ AsyncPoll
    \/ AsyncTimeout
    \/ Tick
    \/ ConnectEntry
    \/ ConnectLogin
    \/ UpdateDevicesEntry
    \/ UpdateDevicesConnected
    \/ UpdateDevicesQuery
    \/ FetchEntry
    \/ FetchHaveDevices
    \/ FetchQuery
    \/ UpdateSensorsLoop

SpecSetup == Init /\ [][NextSetup]_vars

(***************************************************************************)
(* The poll cycle and the reads after setup: the controller is connected,  *)
(* device d1 is listed and active and has a history of at most two         *)
(* samples; from then on the scan-interval timer calls update_sensors and  *)
(* the entities call get_sensors.                                          *)
(***************************************************************************)
PollSamples == {SampleOf(b) : b \in ListBodies}

\* the histories of at most two entries with timestamps up to last
PollHistories(last) ==
    {<<>>}
    \cup { <<[ts |-> t, data |-> smp]>> : t \in 0..last, smp \in PollSamples }
    \cup { <<[ts |-> t[1], data |-> smp[1]], [ts |-> t[2], data |-> smp[2]]>> :
             t \in {u \in (0..last) \X (0..last) : u[2] - u[1] > UPDATE_MIN_INTERVAL},
             smp \in PollSamples \X PollSamples }

InitPoll ==
    /\ params = [uid |-> AccountUid, safeToken |-> 1]
    /\ session = 1
    /\ devices = ("d1" :> DeviceEntry(1, 0))
    /\ active_devices = <<"d1">>
    /\ now = MaxPollTime - 2
    /\ \E h \in PollHistories(now) :
         /\ sensors = ("d1" :> h)
         /\ sensors_raw = IF h = <<>> THEN EmptyMap ELSE ("d1" :> h[Len(h)].data)
         /\ sensors_last_update = IF h = <<>> THEN 0 ELSE h[Len(h)].ts
    /\ stack = <<>>
    /\ retval = "None"
    /\ call = NoCall
    /\ outcome = "idle"
    /\ nreq = NoRequests
    /\ devRejected = FALSE
    /\ authStale = FALSE
    /\ waiter = NoWaiter
    /\ snap = NoSnap
    /\ reader = NoReader
    /\ ev = NoEvent

PollTick == TickTo(MaxPollTime)

NextPoll ==
    \/ CallUpdateSensors
    \/ GetSensors("d1")
    \/ PollTick
    \/ ConnectEntry
    \/ ConnectLogin
    \/ UpdateDevicesEntry
    \/ UpdateDevicesConnected
    \/ UpdateDevicesQuery
    \/ FetchEntry
    \/ FetchHaveDevices
    \/ FetchQuery
    \/ UpdateSensorsLoop

SpecPoll == InitPoll /\ [][NextPoll]_vars

(***************************************************************************)
(* The poll cycle on the worker and the reads of the entities beside it:   *)
(* as SpecPoll, one second before the end of the clock, with get_sensors   *)
(* taken apart into its steps, which interleave with the steps of          *)
(* update_sensors.                                                         *)
(***************************************************************************)
\* the histories PollHistories(last) whose samples all carry a reading of both sensors
RaceHistories(last) ==
    {h \in PollHistories(last) :
       \A i \in 1..Len(h) : DOMAIN h[i].data = SENSORS \cup BINARY_SENSORS}

InitRace ==
    /\ params = [uid |-> AccountUid, safeToken |-> 1]
    /\ session = 1
    /\ devices = ("d1" :> DeviceEntry(1, 0))
    /\ active_devices = <<"d1">>
    /\ now = MaxRaceTime - 1
    /\ \E h \in RaceHistories(now - 2) :
         /\ sensors = ("d1" :> h)
         /\ sensors_raw = IF h = <<>> THEN EmptyMap ELSE ("d1" :> h[Len(h)].data)
         /\ sensors_last_update = IF h = <<>> THEN 0 ELSE h[Len(h)].ts
    /\ stack = <<>>
    /\ retval = "None"
    /\ call = NoCall
    /\ outcome = "idle"
    /\ nreq = NoRequests
    /\ devRejected = FALSE
    /\ authStale = FALSE
    /\ waiter = NoWaiter
    /\ snap = NoSnap
    /\ reader = NoReader
    /\ ev = NoEvent

RaceTick == TickTo(MaxRaceTime)

NextRace ==
    \/ CallUpdateSensors
    \/ ReadStart("d1")
    \/ ReadTsMin
    \/ ReadCopy
    \/ ReadAssign
    \/ ReadAverage
    \/ ReadSum
    \/ RaceTick
    \/ ConnectEntry
    \/ ConnectLogin
    \/ UpdateDevicesEntry
    \/ UpdateDevicesConnected
    \/ UpdateDevicesQuery
    \/ FetchEntry
    \/ FetchHaveDevices
    \/ FetchQuery
    \/ UpdateSensorsLoop

SpecRace == InitRace /\ [][NextRace]_vars

(***************************************************************************)
(* Claims                                                                  *)
(***************************************************************************)
Disconnected == [uid |-> DisconnectedUid, safeToken |-> AnonymousToken]

Finished == outcome \in {"returned", "raised"}

IsQuery(fn) == ev.kind = "query" /\ ev.fn = fn

\* connection error or timeout, bad status, body that is not JSON
TransportFailures == {"conn_error", "http_error", "malformed"}

\* C1: a finished connect call has issued at most two loginByEmail requests, exactly
\* one when forced; and when it issued requests and none of them succeeded it
\* returned False and left the session at the disconnected sentinel.
C1_LoginRetryBounded ==
    (call.op = "connect" /\ Finished) =>
        /\ nreq.login <= 2
        /\ call.force => nreq.login = 1
        /\ (nreq.login >= 1 /\ ~(outcome = "returned" /\ retval = "True")) =>
               /\ outcome = "returned"
               /\ retval = "False"
               /\ params = Disconnected

\* C2: a device-surface query answered with a non-zero returnCode makes _query
\* return None without raising and leaves uid at the disconnected sentinel; and from
\* then until a loginByEmail request is sent, uid stays there and no connect call
\* takes the fast path.
C2_DeviceRejectionInvalidatesSession ==
    /\ (IsQuery("list") /\ ev.resp = "rc_nonzero") =>
           /\ ev.result = "None"
           /\ outcome # "raised"
           /\ ~is_connected
    /\ devRejected =>
           /\ params.uid = DisconnectedUid
           /\ ev.kind # "connect_fast"

\* C2 witness: after a rejected device query the next connect call stands before
\* its loginByEmail request.
C2_Witness == devRejected /\ At("connect", "login")

\* C3: a query answered by a transport-level failure (connection error, timeout,
\* bad status, malformed body) returns None and raises nothing.
C3_TransportFailuresYieldNone ==
    (ev.kind = "query" /\ ev.resp \in TransportFailures) =>
        /\ ev.result = "None"
        /\ outcome # "raised"

\* C4: once deviceManager was answered with code 102 on an established session, no
\* request is sent before the session was reset by a login, and when the call has
\* returned the stale session is gone.
C4_AuthFailureDropsSession ==
    /\ (Running /\ Top.pc = "query") => ~authStale
    /\ outcome = "returned" => ~authStale

\* C5: right after a successful device-list refresh the cached device ids are
\* exactly the ids of the fresh list.
C5_RefreshReplacesCache ==
    (IsQuery("deviceManager") /\ ev.result = "response") => DOMAIN devices = ev.ids

\* C6: a successful login leaves the device cache empty, and every entry cached
\* at any time was listed in the current login session (none survives a login).
C6_LoginClearsDevices ==
    /\ (IsQuery("loginByEmail") /\ ev.result = "response") => devices = EmptyMap
    /\ \A d \in DOMAIN devices : devices[d].deviceToken = session
    /\ (outcome = "returned" /\ retval = "Devices") =>
           \A d \in DOMAIN devices : devices[d].deviceToken = params.safeToken

\* C6 witness: a login succeeded while devices were cached.
C6_Witness == IsQuery("loginByEmail") /\ ev.result = "response" /\ ev.cached # {}

\* C7: the step of connect(force=False) taken while uid > 0 returns True, sends no
\* request and leaves uid, token and the device cache as they were.
C7_FastPathChangesNothing ==
    [][(At("connect", "entry") /\ ~Top.force /\ params.uid > 0) =>
          /\ stack' # stack => (stack' = Tail(stack) /\ retval' = "True")
          /\ ev'.kind # "query"
          /\ nreq' = nreq
          /\ params' = params
          /\ devices' = devices]_vars

\* C7 witness: a top-level connect(force=False) returned by the fast path with
\* devices cached.
C7_Witness ==
    /\ ev.kind = "connect_fast"
    /\ call.op = "connect" /\ ~call.force
    /\ outcome = "returned" /\ retval = "True"
    /\ devices # EmptyMap

\* the cutoff of the get_sensors call that ev records
Cutoff == ev.ts_now - SENSORS_FILTER_FRAME

\* the history that call left
KeptHistory == sensors[ev.device]

\* the stored timestamps at or before the cutoff when the call started
AtOrBeforeCutoff == {k \in Keys(ev.before) : k <= Cutoff}

\* C8: get_sensors leaves exactly the greatest stored timestamp at or before the
\* cutoff, if there is one, and every stored timestamp after the cutoff; nothing is
\* removed when no timestamp is at or before the cutoff; the kept entries are entries
\* of the old history, values and order unchanged.
C8_PruneKeepsCarryInAndWindow ==
    ev.kind = "get_sensors" =>
        /\ Keys(KeptHistory) =
              (IF AtOrBeforeCutoff = {} THEN {} ELSE {Max(AtOrBeforeCutoff)})
              \cup {k \in Keys(ev.before) : k > Cutoff}
        /\ AtOrBeforeCutoff = {} => KeptHistory = ev.before
        /\ Len(KeptHistory) = Cardinality(Keys(KeptHistory))
        /\ \A i \in 1..Len(KeptHistory) :
              KeptHistory[i] = ev.before[i + Len(ev.before) - Len(KeptHistory)]

\* C8 witness: a call removed samples and kept a carry-in sample strictly before the
\* cutoff together with a sample inside the window.
C8_Witness ==
    /\ ev.kind = "get_sensors"
    /\ Len(KeptHistory) < Len(ev.before)
    /\ Len(KeptHistory) >= 2
    /\ KeptHistory[1].ts < Cutoff

\* the second from which the i-th kept sample counts, and the one from which it no
\* longer does
HeldFrom(h, i) == Max({h[i].ts, Cutoff})

HeldUntil(h, i) == IF i < Len(h) THEN Max({h[i + 1].ts, Cutoff}) ELSE ev.ts_now + 1

RECURSIVE HoldSum(_, _, _)
\* the sum over the kept samples i..Len(h) of (value of sensor s) x (seconds held)
HoldSum(h, i, s) ==
    IF i > Len(h)
    THEN 0
    ELSE (IF s \in DOMAIN h[i].data THEN h[i].data[s] ELSE 0)
             * (HeldUntil(h, i) - HeldFrom(h, i))
         + HoldSum(h, i + 1, s)

RECURSIVE HoldTime(_, _)
HoldTime(h, i) ==
    IF i > Len(h) THEN 0 ELSE (HeldUntil(h, i) - HeldFrom(h, i)) + HoldTime(h, i + 1)

\* C9: when get_sensors returns a mapping, each sensor's accumulator is the
\* zero-order-hold sum of the kept samples, the length is
\* max(1, now - max(earliest kept, cutoff) + 1) and equals the seconds held in
\* total, the returned value of a sensor other than sensor 1 is accumulator / length
\* (truncated for a ppm sensor), and sensor 1 is the raw snapshot's value.
C9_TimeWeightedMean ==
    (ev.kind = "get_sensors" /\ ev.result = "Mapping") =>
        /\ ev.length = Max({1, ev.ts_now - Max({KeptHistory[1].ts, Cutoff}) + 1})
        /\ ev.length = HoldTime(KeptHistory, 1)
        /\ DOMAIN ev.value = DOMAIN sensors_raw[ev.device]
        /\ \A s \in DOMAIN ev.value :
              IF s = 1
              THEN ev.value[s] = sensors_raw[ev.device][1]
              ELSE /\ ev.sums[s] = HoldSum(KeptHistory, 1, s)
                   /\ ev.value[s] * ev.length <= ev.sums[s]
                   /\ ev.sums[s] < (ev.value[s] + 1) * ev.length

\* C9 witness: the worked example in small: a sample of value 1 at the cutoff, one of
\* value 2 two seconds later, read one second after that: (1*2 + 2*2) / 4.
C9_Witness ==
    /\ ev.kind = "get_sensors" /\ ev.result = "Mapping"
    /\ Len(KeptHistory) = 2
    /\ KeptHistory[1].ts = Cutoff /\ KeptHistory[2].ts = Cutoff + 2
    /\ ev.ts_now = Cutoff + 3
    /\ 9 \in DOMAIN ev.sums /\ ev.sums[9] = 6 /\ ev.length = 4

\* C10: get_sensors returns None exactly when the device's history was empty, and
\* returns a mapping whenever it was not.
C10_NoneOnlyWithoutSamples ==
    ev.kind = "get_sensors" =>
        /\ ev.result = "None" <=> ev.before = <<>>
        /\ ev.before # <<>> => ev.result = "Mapping"

\* C11: update_sensors starts a fetch for a device only when its history is empty or
\* its newest timestamp is more than UPDATE_MIN_INTERVAL before ts_now; any two
\* timestamps of one history are more than UPDATE_MIN_INTERVAL apart; and get_sensors
\* leaves the newest timestamp of a history in place, so that pruning changes the
\* answer of the throttle at no time.
C11_ThrottledIngest ==
    /\ At("_fetch_sensors", "entry") => NeedFetch(HistoryOf(Top.device_id), Top.ts_now)
    /\ \A d \in DOMAIN sensors : \A i, j \in 1..Len(sensors[d]) :
          i < j => sensors[d][j].ts - sensors[d][i].ts > UPDATE_MIN_INTERVAL
    /\ (ev.kind = "get_sensors" /\ ev.before # <<>>) =>
          /\ KeptHistory # <<>>
          /\ Max(Keys(KeptHistory)) = Max(Keys(ev.before))
          /\ \A t \in 0..MaxPollTime : NeedFetch(KeptHistory, t) <=> NeedFetch(ev.before, t)

\* C11 witness: get_sensors pruned a history of three samples, one of which a fetch
\* of update_sensors had stored.
C11_Witness ==
    /\ ev.kind = "get_sensors"
    /\ Len(ev.before) = 3
    /\ Len(KeptHistory) < 3

\* C12: a call of update_sensors sends no notification while devices are still
\* being processed, and when it has ended it has sent exactly one, whether it
\* returned or not.
C12_OneSignalPerCycle ==
    call.op = "update_sensors" =>
        /\ Running => nreq.signal = 0
        /\ Finished => nreq.signal = 1

\* C13: async_update_sensors_or_timeout is never suspended past its deadline, and
\* when it ends it does so within the timeout, returning normally only if a fetch
\* stored a sample after the call started and raising CannotConnect otherwise.
C13_SensorsWaitEndsOnSampleOrTimeout ==
    waiter.op = "async_update_sensors_or_timeout" =>
        /\ Pending => now - waiter.start <= UPDATE_TIMEOUT
        /\ ev.kind = "async_end" =>
              /\ now - waiter.start <= UPDATE_TIMEOUT
              /\ waiter.result \in {"None", "CannotConnect"}
              /\ waiter.result = "None" => waiter.stored
              /\ ~waiter.stored => waiter.result = "CannotConnect"

\* C14: async_update_devices_or_timeout ends by returning the device map, which is
\* then not empty, or by raising CannotConnect; it returns neither an empty map nor
\* None.
C14_DevicesWaitReturnsMapOrRaises ==
    (waiter.op = "async_update_devices_or_timeout" /\ ev.kind = "async_end") =>
        \/ waiter.result = "CannotConnect"
        \/ waiter.result = "Devices" /\ devices # EmptyMap

\* C15: a get_sensors call that follows another one for the same device in the same
\* second, with no step in between, ends as the first did, returns the same averages
\* and leaves the history as the first call left it.
C15_ReadIsIdempotent ==
    (ev.kind = "get_sensors" /\ ev.prev.kind = "get_sensors") =>
        /\ ev.result = ev.prev.result
        /\ ev.result = "Mapping" => ev.value = ev.prev.value
        /\ KeptHistory = ev.before

\* C15 witness: the first call pruned the history and the second returned averages
\* over what was left, a carry-in sample among it.
C15_Witness ==
    /\ ev.kind = "get_sensors" /\ ev.prev.kind = "get_sensors"
    /\ Len(ev.prev.before) > Len(ev.before)
    /\ ev.result = "Mapping"
    /\ Len(KeptHistory) >= 2
    /\ KeptHistory[1].ts < Cutoff

\* _fetch_sensors, called by update_sensors, has just returned False
FetchReturnedFalse == snap.valid /\ At("update_sensors", "loop") /\ retval = "False"

\* the history of device d when _fetch_sensors was called
HistoryThen(d) == IF d \in DOMAIN snap.sensors THEN snap.sensors[d] ELSE <<>>

SamplesAsBefore ==
    /\ \A d \in DeviceIds : HistoryOf(d) = HistoryThen(d)
    /\ sensors_raw = snap.sensors_raw
    /\ sensors_last_update = snap.sensors_last_update

\* C16: when _fetch_sensors has returned False, the device map, every
\* history, every raw snapshot and the last-update stamp are as before the call.
C16_FailedFetchChangesNothing ==
    FetchReturnedFalse => (devices = snap.devices /\ SamplesAsBefore)

\* C17: when the device map that update_devices handed to _fetch_sensors has no entry
\* for device_id, _fetch_sensors returns False and raises nothing.
C17_UnlistedDeviceYieldsFalse ==
    (ev.kind = "have_devices" /\ ~ev.listed) =>
        /\ ev.result = "False"
        /\ outcome # "raised"

\* C18: a top-level update_devices(force=False) sends at most two deviceManager
\* requests and returns None when the second one failed too; a _fetch_sensors call of
\* update_sensors sends at most two 'list' requests and returns False when the second
\* one failed too; the call stack never grows beyond the four nested frames.
C18_OneRetryPerLayer ==
    /\ Len(stack) <= 4
    /\ (call.op = "update_devices" /\ ~call.force) =>
          /\ nreq.deviceManager <= 2
          /\ (IsQuery("deviceManager") /\ nreq.deviceManager = 2
                 /\ ev.result # "response") =>
                (outcome = "returned" /\ retval = "None")
    /\ call.op = "update_sensors" =>
          /\ nreq.list <= 2
          /\ (IsQuery("list") /\ nreq.list = 2 /\ ev.result # "response") =>
                (At("update_sensors", "loop") /\ retval = "False")

\* C19: whenever _fetch_sensors is about to send its device-surface query, the
\* session uid is a logged-in one and the deviceToken it sends was listed in the
\* current login session, under the safeToken the session still holds.
C19_DeviceTokenOfCurrentSession ==
    At("_fetch_sensors", "query") =>
        /\ is_connected
        /\ Top.device_id \in DOMAIN devices
        /\ devices[Top.device_id].deviceToken = session
        /\ devices[Top.device_id].deviceToken = params.safeToken

\* C19 witness: the retry of _fetch_sensors is about to query the device after its
\* first query was rejected and a second login listed the device again.
C19_Witness ==
    /\ At("_fetch_sensors", "query") /\ Top.force
    /\ session = 2
    /\ devices[Top.device_id].deviceToken = 2

\* C20: a get_sensors call on a history that is not empty raises nothing and returns
\* a mapping whose keys are the sensor ids of the latest raw snapshot, whatever
\* sensor ids the stored samples have.
C20_AveragingToleratesDifferingIds ==
    (ev.kind = "get_sensors" /\ ev.result # "None") =>
        /\ ev.result = "Mapping"
        /\ outcome = "returned"
        /\ DOMAIN ev.value = DOMAIN sensors_raw[ev.device]

\* the sample of the history entry with the greatest timestamp
NewestSample(h) == (CHOOSE e \in {h[i] : i \in 1..Len(h)} : e.ts = Max(Keys(h))).data

\* C21: when a get_sensors call for a device has ended and a _fetch_sensors for the
\* same device stored a sample while the call ran, the sample is in the history of
\* the device under the timestamp of the fetch, and the raw snapshot of the device
\* is the history entry with the greatest timestamp.
C21_ReadLosesNoIngestedSample ==
    (ev.kind = "read_end" /\ ev.stored # NoStamp) =>
        /\ ev.stored \in Keys(HistoryOf(ev.device))
        /\ sensors_raw[ev.device] = NewestSample(HistoryOf(ev.device))

====
